---- MODULE Spec2Model ----
(***************************************************************************)
(* Model of the two ddu sources of ddu-source-nvim_lsp:                    *)
(*   denops/@ddu-sources/lsp_diagnostic.ts  (diagnostics gather, sorter)   *)
(*   denops/@ddu-sources/nvim_lsp.ts        (definition/reference gather)  *)
(***************************************************************************)
EXTENDS Integers, Sequences, FiniteSets, TLC

\* ------------------------------------------------------------------------
\* Bounds of the model
\* ------------------------------------------------------------------------
MaxLen == 3        \* longest item sequence handed to the sorter (SpecSort)
MaxLocs == 2       \* longest array of locations in one client's result (SpecLoc)
MaxScope == 2      \* longest list of buffer ids given as the diagnostics scope
MaxDiag == 1       \* most diagnostics one host query returns

\* ------------------------------------------------------------------------
\* Values
\* ------------------------------------------------------------------------
\* `bufNr?: number`, `severity?`: the JavaScript value undefined
Undefined == -1
\* `buffer: number | number[] | null`: the JavaScript value null
Null == -2

\* const Severity = { Error: 1, Warning: 2, Info: 3, Hint: 4 }
SeverityError == 1
SeverityWarning == 2

\* buffer ids and 1-based line numbers the sorter's inputs are drawn from
Bufs == {1, 2, 3}
Lines == {1, 2}
Severities == {SeverityError, SeverityWarning}

\* What the sorter reads of an item: action.bufNr, data.severity, action.lineNr
ItemKeys == [bufNr : Bufs \cup {Undefined},
             severity : Severities \cup {Undefined},
             lineNr : Lines]

\* ------------------------------------------------------------------------
\* sortItemDiagnostic
\* ------------------------------------------------------------------------
\* `a.data.severity ?? 1`
SeverityOrError(x) ==
  IF x.data.severity = Undefined THEN SeverityError ELSE x.data.severity

\* `a.action.bufNr && ...`, `bufNr ? ... : ...`: undefined, null and 0 are falsy
Truthy(n) == n # Undefined /\ n # Null /\ n # 0

\* Compare with the line numbers subtracted the wrong way round
CompareLineDescending(a, b, curBufNr) ==
  IF Truthy(a.action.bufNr) /\ a.action.bufNr = b.action.bufNr
  THEN IF a.data.severity = b.data.severity
       THEN b.action.lineNr - a.action.lineNr
       ELSE SeverityOrError(a) - SeverityOrError(b)
  ELSE IF a.action.bufNr = Undefined \/ a.action.bufNr = curBufNr
       THEN -1
       ELSE IF b.action.bufNr = Undefined \/ b.action.bufNr = curBufNr
            THEN 1
            ELSE a.action.bufNr - b.action.bufNr

\* Compare with the buffer numbers subtracted the wrong way round
CompareBufDescending(a, b, curBufNr) ==
  IF Truthy(a.action.bufNr) /\ a.action.bufNr = b.action.bufNr
  THEN IF a.data.severity = b.data.severity
       THEN a.action.lineNr - b.action.lineNr
       ELSE SeverityOrError(a) - SeverityOrError(b)
  ELSE IF a.action.bufNr = Undefined \/ a.action.bufNr = curBufNr
       THEN -1
       ELSE IF b.action.bufNr = Undefined \/ b.action.bufNr = curBufNr
            THEN 1
            ELSE b.action.bufNr - a.action.bufNr

\* Compare answering -1 or 1 for the lines, never 0
CompareLineNeverEqual(a, b, curBufNr) ==
  IF Truthy(a.action.bufNr) /\ a.action.bufNr = b.action.bufNr
  THEN IF a.data.severity = b.data.severity
       THEN IF a.action.lineNr <= b.action.lineNr THEN -1 ELSE 1
       ELSE SeverityOrError(a) - SeverityOrError(b)
  ELSE IF a.action.bufNr = Undefined \/ a.action.bufNr = curBufNr
       THEN -1
       ELSE IF b.action.bufNr = Undefined \/ b.action.bufNr = curBufNr
            THEN 1
            ELSE a.action.bufNr - b.action.bufNr

\* The comparator passed to items.sort
Compare(a, b, curBufNr) ==
  IF Truthy(a.action.bufNr) /\ a.action.bufNr = b.action.bufNr
  THEN IF a.data.severity = b.data.severity
       THEN a.action.lineNr - b.action.lineNr
       ELSE SeverityOrError(a) - SeverityOrError(b)
  ELSE IF a.action.bufNr = Undefined \/ a.action.bufNr = curBufNr
       THEN -1
       ELSE IF b.action.bufNr = Undefined \/ b.action.bufNr = curBufNr
            THEN 1
            ELSE a.action.bufNr - b.action.bufNr

\* Array.prototype.sort as the runtime (Deno, V8) runs it on an array shorter
\* than 64 elements: the leading run is counted (and reversed when strictly
\* descending), then the rest is placed by binary insertion.  Indices are
\* 0-based as in the engine; s[i + 1] is element i.
RECURSIVE RunEnd(_, _, _, _)
RunEnd(s, idx, isDescending, curBufNr) ==
  IF idx >= Len(s) THEN idx
  ELSE LET order == Compare(s[idx + 1], s[idx], curBufNr)
       IN IF (isDescending /\ order >= 0) \/ (~isDescending /\ order < 0)
          THEN idx
          ELSE RunEnd(s, idx + 1, isDescending, curBufNr)

Reverse(s) == [i \in 1..Len(s) |-> s[Len(s) + 1 - i]]

\* <<array after the run is made ascending, run length>>
CountAndMakeRun(s, curBufNr) ==
  IF Len(s) < 2 THEN <<s, Len(s)>>
  ELSE LET isDescending == Compare(s[2], s[1], curBufNr) < 0
           runLength == RunEnd(s, 2, isDescending, curBufNr)
       IN IF isDescending
          THEN <<Reverse(SubSeq(s, 1, runLength)) \o SubSeq(s, runLength + 1, Len(s)),
                 runLength>>
          ELSE <<s, runLength>>

RECURSIVE BinarySearch(_, _, _, _, _)
BinarySearch(s, pivot, left, right, curBufNr) ==
  IF left >= right THEN left
  ELSE LET mid == left + ((right - left) \div 2)
       IN IF Compare(pivot, s[mid + 1], curBufNr) < 0
          THEN BinarySearch(s, pivot, left, mid, curBufNr)
          ELSE BinarySearch(s, pivot, mid + 1, right, curBufNr)

\* element `start` moved to index `left`, the elements between shifted right
InsertAt(s, start, left) ==
  SubSeq(s, 1, left) \o <<s[start + 1]>> \o SubSeq(s, left + 1, start)
    \o SubSeq(s, start + 2, Len(s))

RECURSIVE BinaryInsertionSort(_, _, _)
BinaryInsertionSort(s, start, curBufNr) ==
  IF start >= Len(s) THEN s
  ELSE BinaryInsertionSort(
         InsertAt(s, start, BinarySearch(s, s[start + 1], 0, start, curBufNr)),
         start + 1, curBufNr)

ArraySort(s, curBufNr) ==
  LET run == CountAndMakeRun(s, curBufNr)
  IN BinaryInsertionSort(run[1], run[2], curBufNr)

sortItemDiagnostic(items, curBufNr) == ArraySort(items, curBufNr)


\* ------------------------------------------------------------------------
\* nvim_lsp.ts: supported methods, location resolution, item building
\* ------------------------------------------------------------------------
SUPPORTED_METHODS ==
  {"textDocument/declaration", "textDocument/definition",
   "textDocument/typeDefinition", "textDocument/implementation",
   "textDocument/references"}

\* isSupportedMethod letting the default (empty) method through
isSupportedMethodOrDefault(method) ==
  method = "" \/ \E m \in SUPPORTED_METHODS : method = m

isSupportedMethod(method) == \E m \in SUPPORTED_METHODS : method = m

\* A uri is a sequence of tokens: the scheme first, then path pieces and
\* percent-encoded characters.
FileUri == <<"file:", "/x.ts">>
DenoFragmentUri == <<"deno:", "/foo", "%23", "%5E", "fragment">>
DenoPlainUri == <<"deno:", "/foo", "%23", "L10">>
Uris == {FileUri, DenoFragmentUri, DenoPlainUri}

\* The two wire shapes of one result entry
Location(u) == [uri |-> u, range |-> [start |-> [line |-> 0, character |-> 0]]]
LocationLink(u) ==
  [targetUri |-> u,
   targetSelectionRange |-> [start |-> [line |-> 4, character |-> 1]]]

\* the JavaScript value null, as an element of a result list
NullValue == [null |-> TRUE]
IsNull(x) == "null" \in DOMAIN x
Has(x, f) == ~IsNull(x) /\ f \in DOMAIN x

toLocation(loc) ==
  IF Has(loc, "uri") /\ Has(loc, "range")
  THEN loc
  ELSE [uri |-> loc.targetUri, range |-> loc.targetSelectionRange]

\* isDenoUriWithFragment matching every deno: uri
isDenoUri(location) ==
  Has(location, "uri") /\ Len(location.uri) > 0 /\ location.uri[1] = "deno:"

\* /^deno:.*%23(%5E|%7E|%3C|%3D)/.test(uri); an undefined uri is tested as
\* the string "undefined" and does not match.
isDenoUriWithFragment(location) ==
  /\ Has(location, "uri")
  /\ LET uri == location.uri
     IN /\ Len(uri) > 0
        /\ uri[1] = "deno:"
        /\ \E i \in 2..(Len(uri) - 1) :
             uri[i] = "%23" /\ uri[i + 1] \in {"%5E", "%7E", "%3C", "%3D"}

\* `new URL(uri).pathname` of a file: uri
Pathname(uri) == Tail(uri)

locationToItem(location) ==
  LET uri == location.uri
      path == IF Len(uri) > 0 /\ uri[1] = "file:" THEN Pathname(uri) ELSE uri
      lineNr == location.range.start.line + 1
      col == location.range.start.character + 1
  IN [word |-> path, display |-> <<path, lineNr, col>>,
      action |-> [path |-> path, lineNr |-> lineNr, col |-> col]]

\* destructuring `const { uri } = location` throws on null; uri.startsWith
\* throws on an undefined uri
FilterThrows(flat) == \E i \in 1..Len(flat) : IsNull(flat[i])
BuildThrows(location) == ~Has(location, "uri")

\* Array.prototype.flat, one level: the concatenation of the inner lists
RECURSIVE Flat(_)
Flat(lists) ==
  IF Len(lists) = 0 THEN <<>> ELSE Head(lists) \o Flat(Tail(lists))

SelectNotDeno(flat) == SelectSeq(flat, LAMBDA l : ~isDenoUriWithFragment(l))

\* .filter(...).map(locationToItem) on the flattened list: the locations
\* handed to the item builder, the items, and whether a TypeError ends it
RECURSIVE BuiltPrefix(_)
BuiltPrefix(kept) ==
  IF kept = <<>> THEN <<>>
  ELSE IF BuildThrows(Head(kept)) THEN <<Head(kept)>>
       ELSE <<Head(kept)>> \o BuiltPrefix(Tail(kept))

FilterAndBuild(flat) ==
  IF FilterThrows(flat)
  THEN [threw |-> TRUE, items |-> <<>>, built |-> <<>>]
  ELSE LET kept == SelectNotDeno(flat)
           built == BuiltPrefix(kept)
       IN IF \E i \in 1..Len(built) : BuildThrows(built[i])
          THEN [threw |-> TRUE, items |-> <<>>, built |-> built]
          ELSE [threw |-> FALSE,
                items |-> [i \in 1..Len(kept) |-> locationToItem(kept[i])],
                built |-> built]

\* One client's `result`: null, one location, or an array of them
NullResult == [kind |-> "null"]
SingleResult(l) == [kind |-> "single", loc |-> l]
ArrayResult(ls) == [kind |-> "array", locs |-> ls]

\* the flatMap callback of definitionHandler
DefinitionLocations(r) ==
  IF r.kind = "array"
  THEN [i \in 1..Len(r.locs) |-> toLocation(r.locs[i])]
  ELSE IF r.kind = "single" THEN <<r.loc>> ELSE <<NullValue>>

\* the flatMap callback of referencesHandler
ReferencesLocations(r) ==
  IF r.kind = "array" THEN r.locs
  ELSE IF r.kind = "single" THEN <<r.loc>> ELSE <<NullValue>>

definitionHandler(response) ==
  FilterAndBuild(Flat([i \in 1..Len(response) |-> DefinitionLocations(response[i])]))

referencesHandler(response) ==
  FilterAndBuild(Flat([i \in 1..Len(response) |-> ReferencesLocations(response[i])]))

\* the switch of Source.gather
HandlerFor(method, response) ==
  IF method = "textDocument/references"
  THEN referencesHandler(response)
  ELSE definitionHandler(response)

\* ------------------------------------------------------------------------
\* lsp_diagnostic.ts: the three client adapters and the item builder
\* ------------------------------------------------------------------------
ClientNames == {"nvim-lsp", "coc.nvim", "vim-lsp"}

\* assertClientName(clientName) throws on any other name
AssertClientNameThrows(clientName) == clientName \notin ClientNames

\* `Array.isArray(buffer) ? buffer : [buffer]`; the scope is kept as
\* [isArray, ids], ids being the list itself or the one value
Buffers(buffer) == buffer.ids

\* the scope entry handed to the adapter as it is
ResolveBufNrKeepsZero(buffer, contextBufNr) == buffer

\* `buffer === 0 ? context.bufNr : buffer`
ResolveBufNr(buffer, contextBufNr) == IF buffer = 0 THEN contextBufNr ELSE buffer

\* bufNrToFileUri / fromFileUrl: the file of buffer n has uri n and path n
bufNrToFileUri(bufNr) == bufNr
fromFileUrl(uri) == uri

\* What the host holds: the k-th diagnostic it reports
HostSeverity(k) == IF k % 2 = 1 THEN SeverityWarning ELSE SeverityError
HostSeverityName(k) == IF k % 2 = 1 THEN "Warning" ELSE "Error"
HostMessage(k) == <<"message", "second line">>
HostBuf(bufNr, k) == IF Truthy(bufNr) THEN bufNr ELSE 1 + (k % 2)

\* vim.diagnostic.get(bufNr): records of that buffer, of every buffer for nil
NvimRaw(bufNr, k) ==
  [bufnr |-> HostBuf(bufNr, k), lnum |-> MaxDiag - k, col |-> 0,
   severity |-> HostSeverity(k), message |-> HostMessage(k)]
\* CocAction('diagnosticList'): records of every file
CocRaw(k) ==
  [file |-> 1 + (k % 2), uri |-> 1 + (k % 2), line |-> MaxDiag - k,
   character |-> 0, severity |-> HostSeverityName(k), message |-> HostMessage(k)]
\* vim-lsp: protocol diagnostics, severity optional
VimLspRaw(k) ==
  [line |-> MaxDiag - k, character |-> 0,
   severity |-> IF k % 2 = 1 THEN Undefined ELSE SeverityError,
   message |-> HostMessage(k)]

\* The values one host call can return for a query of `bufNr`
NvimReplies(bufNr) ==
  {[null |-> TRUE, list |-> <<>>]}
    \cup {[null |-> FALSE, list |-> [k \in 1..n |-> NvimRaw(bufNr, k)]] : n \in 0..MaxDiag}
CocReplies ==
  {[null |-> TRUE, list |-> <<>>]}
    \cup {[null |-> FALSE, list |-> [k \in 1..n |-> CocRaw(k)]] : n \in 0..MaxDiag}
\* grouped by server for one uri (bufNr given), or by uri and server
VimLspReplies(bufNr) ==
  IF Truthy(bufNr)
  THEN {[null |-> FALSE,
         list |-> << <<[uri |-> bufNrToFileUri(bufNr),
                        diagnostics |-> [k \in 1..n |-> VimLspRaw(k)]]>> >>]
          : n \in 0..MaxDiag}
  ELSE {[null |-> FALSE,
         list |-> [u \in 1..m |->
                    <<[uri |-> u, diagnostics |-> [k \in 1..n |-> VimLspRaw(k)]]>>]]
          : n \in 0..MaxDiag, m \in 0..2}

HostReplies(clientName, bufNr) ==
  IF clientName = "nvim-lsp" THEN NvimReplies(bufNr)
  ELSE IF clientName = "coc.nvim" THEN CocReplies
  ELSE VimLspReplies(bufNr)

Severity(name) ==
  CASE name = "Error" -> 1 [] name = "Warning" -> 2
    [] name = "Info" -> 3 [] name = "Hint" -> 4

\* An adapter returns undefined ([defined |-> FALSE]) or a list
NoDiagnostics == [defined |-> FALSE, list |-> <<>>]

getNvimLspDiagnostics(reply) ==
  IF reply.null THEN NoDiagnostics
  ELSE [defined |-> TRUE,
        list |-> [i \in 1..Len(reply.list) |->
          LET diag == reply.list[i]
          IN [bufNr |-> diag.bufnr, path |-> Undefined,
              severity |-> diag.severity, message |-> diag.message,
              range |-> [start |-> [line |-> diag.lnum, character |-> diag.col]]]]]

getCocDiagnostics(reply, uri) ==
  IF reply.null THEN NoDiagnostics
  ELSE LET kept == SelectSeq(reply.list, LAMBDA diag : ~Truthy(uri) \/ diag.uri = uri)
       IN [defined |-> TRUE,
           list |-> [i \in 1..Len(kept) |->
             LET diag == kept[i]
             IN [bufNr |-> Undefined, path |-> diag.file,
                 severity |-> Severity(diag.severity), message |-> diag.message,
                 range |-> [start |-> [line |-> diag.line,
                                       character |-> diag.character]]]]]

\* Object.values(...).flatMap(...): every group's diagnostics, path stamped
VimLspGroup(group) ==
  [i \in 1..Len(group.diagnostics) |->
     LET diag == group.diagnostics[i]
     IN [bufNr |-> Undefined, path |-> fromFileUrl(group.uri),
         severity |-> diag.severity, message |-> diag.message,
         range |-> [start |-> [line |-> diag.line, character |-> diag.character]]]]

getVimLspDiagnostics(reply) ==
  LET groups == Flat(reply.list)
  IN [defined |-> TRUE,
      list |-> Flat([g \in 1..Len(groups) |-> VimLspGroup(groups[g])])]

\* getDiagnostic: the adapter's value once its last host call has returned
getDiagnostic(clientName, reply, uri) ==
  IF clientName = "nvim-lsp" THEN getNvimLspDiagnostics(reply)
  ELSE IF clientName = "coc.nvim" THEN getCocDiagnostics(reply, uri)
  ELSE getVimLspDiagnostics(reply)

\* FirstAwait without the host check of getNvimLspDiagnostics
FirstAwaitAnyHost(clientName, host, bufNr) ==
  IF clientName = "nvim-lsp" THEN "query"
  ELSE IF Truthy(bufNr) THEN "uri" ELSE "query"

\* Where an adapter stands when it first suspends: "failed" (threw before any
\* host call), "uri" (awaiting bufNrToFileUri) or "query" (awaiting the list)
FirstAwait(clientName, host, bufNr) ==
  IF clientName = "nvim-lsp"
  THEN IF host = "vim" THEN "failed" ELSE "query"
  ELSE IF Truthy(bufNr) THEN "uri" ELSE "query"

diagnosticToItem(diagnostic) ==
  [word |-> Head(diagnostic.message),
   action |-> [path |-> diagnostic.path, bufNr |-> diagnostic.bufNr,
               lineNr |-> diagnostic.range.start.line + 1,
               col |-> diagnostic.range.start.character + 1],
   data |-> diagnostic,
   decorated |-> FALSE]

\* addIconAndHighlight(denops, item), once its host call has returned
addIconAndHighlight(item) == [item EXCEPT !.decorated = TRUE]

\* asyncFlatMap(buffers, fn): the per-buffer lists, joined by position
asyncFlatMap(lists) == Flat(lists)

\* ------------------------------------------------------------------------
\* ReadableStream: the default controller's operations
\* ------------------------------------------------------------------------
NewStream == [state |-> "readable", closeRequested |-> FALSE, queue |-> <<>>]

CanCloseOrEnqueue(stream) == stream.state = "readable" /\ ~stream.closeRequested

\* controller.enqueue(chunk), when it does not throw
Enqueue(stream, chunk) == [stream EXCEPT !.queue = Append(@, chunk)]

\* controller.close(), when it does not throw
Close(stream) ==
  [stream EXCEPT !.closeRequested = TRUE,
                 !.state = IF stream.queue = <<>> THEN "closed" ELSE @]

\* start()'s promise rejects: the stream is errored if it is still readable
ErrorStream(stream) ==
  IF stream.state = "readable"
  THEN [stream EXCEPT !.state = "errored", !.queue = <<>>]
  ELSE stream

\* the consumer's reader.cancel()
CancelStream(stream) == [stream EXCEPT !.state = "closed", !.queue = <<>>]

\* the consumer's reader.read() of a queued chunk
ReadChunk(stream) ==
  [stream EXCEPT !.queue = Tail(@),
                 !.state = IF stream.closeRequested /\ Len(stream.queue) = 1
                           THEN "closed" ELSE @]

\* ------------------------------------------------------------------------
\* Inputs
\* ------------------------------------------------------------------------
Hosts == {"nvim", "vim"}
\* context.bufNr, and the buffer ids a scope names (0: the active buffer)
ContextBufs == {1, 2}
ScopeIds == {0, 1}
Scopes ==
  {[isArray |-> FALSE, ids |-> <<b>>] : b \in ScopeIds \cup {Null}}
    \cup {[isArray |-> TRUE, ids |-> l] :
            l \in UNION {[1..n -> ScopeIds] : n \in 0..MaxScope}}
Methods == SUPPORTED_METHODS \cup {"", "textDocument/hover"}

\* One client's result and the whole response of the request
Entries == {Location(u) : u \in Uris} \cup {LocationLink(u) : u \in Uris}
Results ==
  {NullResult} \cup {SingleResult(e) : e \in Entries}
    \cup {ArrayResult(l) : l \in UNION {[1..n -> Entries] : n \in 0..MaxLocs}}
\* the result of a second client: an array of one entry at most
LaterResults == {r \in Results : r.kind = "array" => Len(r.locs) <= 1}
NullResponse == [null |-> TRUE, list |-> <<>>]
Responses ==
  {[null |-> FALSE, list |-> l] :
     l \in {<<>>} \cup {<<r>> : r \in Results}
            \cup {<<r, q>> : r \in Results, q \in LaterResults}}
\* the responses drawn while the whole gather runs: one client at most
GatherResponses ==
  {NullResponse} \cup {r \in Responses : Len(r.list) <= 1}

\* ------------------------------------------------------------------------
\* State
\* ------------------------------------------------------------------------
VARIABLES
  sortIn,        \* the items handed to sortItemDiagnostic (SpecSort)
  sortCur,       \* the focused buffer id handed to it
  sortOut,       \* the array after the call
  sortPc,        \* "input" | "sorted"
  locOut,        \* what the method's handler returned (SpecLoc)
  locPc,         \* "input" | "handled"
  source,        \* which Source's gather runs: "lsp_diagnostic" | "nvim_lsp"
  clientName,    \* sourceParams.clientName
  host,          \* denops.meta.host
  buffer,        \* sourceParams.buffer
  ctxBuf,        \* context.bufNr
  method,        \* sourceParams.method
  pc,            \* where start() stands
  tasks,         \* the per-buffer adapter calls of asyncFlatMap
  firstDone,     \* the index of the adapter call that returned first (0: none yet)
  items,         \* the items being decorated
  decor,         \* per item: "pending" | "done" | "failed"
  sortCalls,     \* the arrays handed to sortItemDiagnostic by gather
  response,      \* what denops.eval returned
  built,         \* the locations handed to locationToItem
  stream,        \* the ReadableStream gather returned
  cancelledAt,   \* "no", or where start() stood when the consumer cancelled
  received,      \* the batches the consumer has read
  log,           \* printError / console.log calls
  bridgeCalls,   \* host calls issued so far
  calls,         \* controller.enqueue / controller.close calls, in order
  startRejected, \* start()'s promise rejected
  afterCancel    \* what the producer did after a cancel

sortVars == <<sortIn, sortCur, sortOut, sortPc>>
locVars == <<locOut, locPc>>
paramVars == <<source, clientName, host, buffer, ctxBuf, method>>
diagVars == <<tasks, firstDone, items, decor, sortCalls>>
lspVars == <<response, built>>
streamVars == <<stream, cancelledAt, received>>
histVars == <<log, bridgeCalls, calls, startRejected, afterCancel>>
gatherVars == <<paramVars, pc, diagVars, lspVars, streamVars, histVars>>
vars == <<sortVars, locVars, gatherVars>>

SortIdle == sortIn = <<>> /\ sortCur = 1 /\ sortOut = <<>> /\ sortPc = "idle"
LocIdle == locOut = [threw |-> FALSE, items |-> <<>>, built |-> <<>>] /\ locPc = "idle"
\* the state gather starts from, the parameters left to the caller
GatherFresh ==
  /\ pc = "start"
  /\ tasks = <<>> /\ firstDone = 0 /\ items = <<>> /\ decor = <<>>
  /\ sortCalls = <<>>
  /\ response = NullResponse /\ built = <<>>
  /\ stream = NewStream /\ cancelledAt = "no" /\ received = <<>>
  /\ log = <<>> /\ bridgeCalls = 0 /\ calls = <<>>
  /\ startRejected = FALSE /\ afterCancel = {}
\* params(): the defaults of the two sources
DefaultScope == [isArray |-> FALSE, ids |-> <<Null>>]
GatherIdle ==
  /\ source = "none" /\ clientName = "nvim-lsp" /\ host = "nvim"
  /\ buffer = DefaultScope /\ ctxBuf = 1 /\ method = ""
  /\ GatherFresh

\* ------------------------------------------------------------------------
\* SpecSort: sortItemDiagnostic applied to every bounded input
\* ------------------------------------------------------------------------
SortItem(keys, i) ==
  [id |-> i,
   action |-> [bufNr |-> keys[i].bufNr, lineNr |-> keys[i].lineNr],
   data |-> [severity |-> keys[i].severity]]

InitSort ==
  /\ \E n \in 0..MaxLen : \E keys \in [1..n -> ItemKeys] :
       sortIn = [i \in 1..n |-> SortItem(keys, i)]
  /\ sortCur \in Bufs
  /\ sortOut = <<>>
  /\ sortPc = "input"
  /\ LocIdle /\ GatherIdle

SortItems ==
  /\ sortPc = "input"
  /\ sortOut' = sortItemDiagnostic(sortIn, sortCur)
  /\ sortPc' = "sorted"
  /\ UNCHANGED <<sortIn, sortCur, locVars, gatherVars>>

NextSort == SortItems

SpecSort == InitSort /\ [][NextSort]_vars

\* ------------------------------------------------------------------------
\* SpecLoc: the method's handler applied to every bounded response
\* ------------------------------------------------------------------------
InitLoc ==
  /\ SortIdle /\ GatherFresh
  /\ source = "none" /\ clientName = "nvim-lsp" /\ host = "nvim"
  /\ buffer = DefaultScope /\ ctxBuf = 1
  /\ method \in SUPPORTED_METHODS
  /\ locOut = [threw |-> FALSE, items |-> <<>>, built |-> <<>>]
  /\ locPc = "input"

\* the response arrives and the switch of gather hands it to the handler
HandleResponse ==
  /\ locPc = "input"
  /\ \E r \in Responses :
       /\ response' = r
       /\ locOut' = HandlerFor(method, r.list)
  /\ locPc' = "handled"
  /\ UNCHANGED <<sortVars, paramVars, pc, diagVars, built, streamVars, histVars>>

NextLoc == HandleResponse

SpecLoc == InitLoc /\ [][NextLoc]_vars

\* ------------------------------------------------------------------------
\* Spec: one gather call of either source, its host calls and its consumer
\* ------------------------------------------------------------------------
Init ==
  /\ SortIdle /\ LocIdle /\ GatherFresh
  /\ source \in {"lsp_diagnostic", "nvim_lsp"}
  /\ \/ /\ source = "lsp_diagnostic"
        /\ clientName \in ClientNames \cup {"other-client"}
        /\ host \in Hosts
        /\ buffer \in Scopes
        /\ ctxBuf \in ContextBufs
        /\ method = ""
     \/ /\ source = "nvim_lsp"
        /\ clientName = "nvim-lsp" /\ host = "nvim" /\ buffer = DefaultScope
        /\ ctxBuf = 1
        /\ method \in Methods

Cancelled == cancelledAt # "no"
Note(what) == IF Cancelled THEN afterCancel \cup what ELSE afterCancel

\* printError(denops, e, "lsp_diagnostic")
printError(e) == Append(log, [fn |-> "printError", name |-> "lsp_diagnostic", error |-> e])

\* lsp_diagnostic.ts, the catch and finally blocks
DiagCatch(e) ==
  /\ log' = printError(e)
  /\ stream' = IF CanCloseOrEnqueue(stream) THEN Close(stream) ELSE ErrorStream(stream)
  /\ calls' = Append(calls, "close")
  /\ startRejected' = ~CanCloseOrEnqueue(stream)
  /\ afterCancel' = IF CanCloseOrEnqueue(stream) THEN afterCancel ELSE Note({"throw"})
  /\ pc' = "done"
  /\ UNCHANGED sortCalls

\* lsp_diagnostic.ts, from the sort to the finally block
DiagFinish(decorated) ==
  LET batch == sortItemDiagnostic(decorated, ctxBuf)
      canEnqueue == CanCloseOrEnqueue(stream)
      s1 == IF canEnqueue THEN Enqueue(stream, batch) ELSE stream
      canClose == CanCloseOrEnqueue(s1)
  IN /\ sortCalls' = Append(sortCalls, decorated)
     /\ calls' = calls \o <<"enqueue", "close">>
     /\ log' = IF canEnqueue THEN log ELSE printError("TypeError")
     /\ stream' = IF canClose THEN Close(s1) ELSE ErrorStream(s1)
     /\ startRejected' = ~canClose
     /\ afterCancel' = Note({"enqueue"} \cup IF canEnqueue /\ canClose THEN {} ELSE {"throw"})
     /\ pc' = "done"

Pending(ts) == {i \in 1..Len(ts) : ts[i].status \in {"uri", "query"}}

\* gather() of lsp_diagnostic.ts: start() up to its first suspension
DiagGather ==
  /\ source = "lsp_diagnostic" /\ pc = "start"
  /\ IF AssertClientNameThrows(clientName)
     THEN /\ DiagCatch("assertClientName")
          /\ UNCHANGED <<tasks, bridgeCalls, items, decor>>
     ELSE LET buffers == Buffers(buffer)
              launched ==
                [i \in 1..Len(buffers) |->
                   LET bufNr == ResolveBufNr(buffers[i], ctxBuf)
                   IN [bufNr |-> bufNr,
                       status |-> FirstAwait(clientName, host, bufNr),
                       uri |-> Undefined, result |-> <<>>]]
          IN /\ tasks' = launched
             /\ bridgeCalls' = bridgeCalls + Cardinality(Pending(launched))
             /\ IF \E i \in 1..Len(launched) : launched[i].status = "failed"
                THEN DiagCatch("not available in vim") /\ UNCHANGED <<items, decor>>
                ELSE IF Len(launched) = 0
                     THEN DiagFinish(<<>>) /\ UNCHANGED <<items, decor>>
                     ELSE /\ pc' = "querying"
                          /\ UNCHANGED <<items, decor, sortCalls, log, stream,
                                         calls, startRejected,
                                         afterCancel>>
  /\ UNCHANGED <<sortVars, locVars, paramVars, firstDone, lspVars, cancelledAt, received>>

\* bufNrToFileUri returns to adapter i, which issues its diagnostics query
TaskUriReturn(i) ==
  /\ i \in 1..Len(tasks) /\ tasks[i].status = "uri"
  /\ tasks' = [tasks EXCEPT ![i].status = "query",
                            ![i].uri = bufNrToFileUri(tasks[i].bufNr)]
  /\ bridgeCalls' = bridgeCalls + 1
  /\ afterCancel' = Note({"bridge"})
  /\ UNCHANGED <<sortVars, locVars, paramVars, pc, firstDone, items, decor, sortCalls,
                 lspVars, streamVars, log, calls, startRejected>>

\* a host call of adapter i throws: Promise.all rejects, gather catches
TaskThrow(i) ==
  /\ i \in 1..Len(tasks) /\ tasks[i].status \in {"uri", "query"}
  /\ tasks' = [tasks EXCEPT ![i].status = "failed"]
  /\ IF pc = "querying"
     THEN DiagCatch("host call failed")
     ELSE UNCHANGED <<pc, sortCalls, log, stream, calls,
                      startRejected, afterCancel>>
  /\ UNCHANGED <<sortVars, locVars, paramVars, firstDone, items, decor, lspVars,
                 cancelledAt, received, bridgeCalls>>

\* the diagnostics query of adapter i returns; the last one to return lets
\* gather go on to build the items and start their decoration
TaskQueryReturn(i) ==
  /\ i \in 1..Len(tasks) /\ tasks[i].status = "query"
  /\ \E reply \in HostReplies(clientName, tasks[i].bufNr) :
       LET value == getDiagnostic(clientName, reply, tasks[i].uri)
           result == IF value.defined THEN value.list ELSE <<>>
           after == [tasks EXCEPT ![i].status = "done", ![i].result = result]
           joined == asyncFlatMap([j \in 1..Len(after) |-> after[j].result])
           made == [k \in 1..Len(joined) |-> diagnosticToItem(joined[k])]
       IN /\ tasks' = after
          /\ firstDone' = IF firstDone = 0 THEN i ELSE firstDone
          /\ IF pc = "querying" /\ \A j \in 1..Len(after) : after[j].status = "done"
             THEN IF Len(made) = 0
                  THEN /\ DiagFinish(<<>>)
                       /\ UNCHANGED <<items, decor, bridgeCalls>>
                  ELSE /\ items' = made
                       /\ decor' = [k \in 1..Len(made) |-> "pending"]
                       /\ bridgeCalls' = bridgeCalls + Len(made)
                       /\ afterCancel' = Note({"bridge"})
                       /\ pc' = "decorating"
                       /\ UNCHANGED <<sortCalls, log, stream, calls, startRejected>>
             ELSE UNCHANGED <<pc, items, decor, bridgeCalls, sortCalls, log, stream,
                              calls, startRejected, afterCancel>>
  /\ UNCHANGED <<sortVars, locVars, paramVars, lspVars, cancelledAt, received>>

\* addIconAndHighlight of item k returns; the last one lets gather sort,
\* enqueue and close
DecorateReturn(k) ==
  /\ pc = "decorating" /\ k \in 1..Len(decor) /\ decor[k] = "pending"
  /\ LET after == [items EXCEPT ![k] = addIconAndHighlight(@)]
         marks == [decor EXCEPT ![k] = "done"]
     IN /\ items' = after
        /\ decor' = marks
        /\ IF \A j \in 1..Len(marks) : marks[j] = "done"
           THEN DiagFinish(after)
           ELSE UNCHANGED <<pc, sortCalls, log, stream, calls,
                            startRejected, afterCancel>>
  /\ UNCHANGED <<sortVars, locVars, paramVars, tasks, firstDone, lspVars,
                 cancelledAt, received, bridgeCalls>>

\* addIconAndHighlight of item k throws: Promise.all rejects, gather catches
DecorateThrow(k) ==
  /\ pc = "decorating" /\ k \in 1..Len(decor) /\ decor[k] = "pending"
  /\ decor' = [decor EXCEPT ![k] = "failed"]
  /\ DiagCatch("host call failed")
  /\ UNCHANGED <<sortVars, locVars, paramVars, tasks, firstDone, items, lspVars,
                 cancelledAt, received, bridgeCalls>>

\* gather() of nvim_lsp.ts: start() up to its first suspension
LspGather ==
  /\ source = "nvim_lsp" /\ pc = "start"
  /\ IF ~isSupportedMethod(method)
     THEN /\ log' = Append(log, [fn |-> "console.log", name |-> "Unsupported method",
                                 error |-> method])
          /\ stream' = Close(stream)
          /\ calls' = Append(calls, "close")
          /\ pc' = "done"
          /\ UNCHANGED bridgeCalls
     ELSE /\ bridgeCalls' = bridgeCalls + 1
          /\ pc' = "requesting"
          /\ UNCHANGED <<log, stream, calls>>
  /\ UNCHANGED <<sortVars, locVars, paramVars, diagVars, lspVars, cancelledAt, received,
                 startRejected, afterCancel>>

\* denops.eval returns: null closes the stream, anything else goes through
\* the method's handler, is enqueued, and the stream is closed.  Nothing
\* catches what the handler, enqueue or close throws: start() rejects.
LspRequestReturn ==
  /\ source = "nvim_lsp" /\ pc = "requesting"
  /\ \E r \in GatherResponses :
       LET handled == HandlerFor(method, r.list)
           canEnqueue == CanCloseOrEnqueue(stream)
       IN /\ response' = r
          /\ IF r.null
             THEN /\ stream' = IF canEnqueue THEN Close(stream) ELSE ErrorStream(stream)
                  /\ calls' = Append(calls, "close")
                  /\ startRejected' = ~canEnqueue
                  /\ afterCancel' = IF canEnqueue THEN afterCancel ELSE Note({"throw"})
                  /\ UNCHANGED built
             ELSE /\ built' = handled.built
                  /\ IF handled.threw
                     THEN /\ stream' = ErrorStream(stream)
                          /\ startRejected' = TRUE
                          /\ afterCancel' = Note({"throw"})
                          /\ UNCHANGED calls
                     ELSE IF canEnqueue
                          THEN /\ stream' = Close(Enqueue(stream, handled.items))
                               /\ calls' = calls \o <<"enqueue", "close">>
                               /\ UNCHANGED <<startRejected, afterCancel>>
                          ELSE /\ stream' = ErrorStream(stream)
                               /\ calls' = Append(calls, "enqueue")
                               /\ startRejected' = TRUE
                               /\ afterCancel' = Note({"enqueue", "throw"})
  /\ pc' = "done"
  /\ UNCHANGED <<sortVars, locVars, paramVars, diagVars, cancelledAt, received, log,
                 bridgeCalls>>

\* denops.eval throws: start() rejects and the stream is errored
LspRequestThrow ==
  /\ source = "nvim_lsp" /\ pc = "requesting"
  /\ stream' = ErrorStream(stream)
  /\ startRejected' = TRUE
  /\ pc' = "done"
  /\ UNCHANGED <<sortVars, locVars, paramVars, diagVars, lspVars, cancelledAt, received,
                 log, bridgeCalls, calls, afterCancel>>

\* the consumer reads a queued batch
ConsumerRead ==
  /\ pc # "start" /\ stream.state = "readable" /\ stream.queue # <<>>
  /\ received' = Append(received, Head(stream.queue))
  /\ stream' = ReadChunk(stream)
  /\ UNCHANGED <<sortVars, locVars, paramVars, pc, diagVars, lspVars, cancelledAt,
                 histVars>>

\* the consumer stops reading and cancels the stream
ConsumerCancel ==
  /\ pc # "start" /\ stream.state = "readable" /\ ~Cancelled
  /\ cancelledAt' = pc
  /\ stream' = CancelStream(stream)
  /\ UNCHANGED <<sortVars, locVars, paramVars, pc, diagVars, lspVars, received,
                 histVars>>

Next ==
  \/ DiagGather
  \/ \E i \in 1..MaxScope : TaskUriReturn(i)
  \/ \E i \in 1..MaxScope : TaskThrow(i)
  \/ \E i \in 1..MaxScope : TaskQueryReturn(i)
  \/ \E k \in 1..Len(decor) : DecorateReturn(k)
  \/ \E k \in 1..Len(decor) : DecorateThrow(k)
  \/ LspGather
  \/ LspRequestReturn
  \/ LspRequestThrow
  \/ ConsumerRead
  \/ ConsumerCancel

Spec == Init /\ [][Next]_vars

\* ------------------------------------------------------------------------
\* Properties of sortItemDiagnostic (SpecSort)
\* ------------------------------------------------------------------------
Sorted == sortPc = "sorted"
BufOf(x) == x.action.bufNr
LineOf(x) == x.action.lineNr
SameBuf(a, b) == BufOf(a) # Undefined /\ BufOf(a) = BufOf(b)
InFront(x) == BufOf(x) = Undefined \/ BufOf(x) = sortCur
AllDefined ==
  \A i \in 1..Len(sortIn) :
    BufOf(sortIn[i]) # Undefined /\ sortIn[i].data.severity # Undefined
PosOf(out, id) == CHOOSE p \in 1..Len(out) : out[p].id = id
SameKeys(a, b) == a.action = b.action /\ a.data = b.data
Tie(a, b) == Compare(a, b, sortCur) = 0 /\ Compare(b, a, sortCur) = 0

SeverityThenLine(out) ==
  \A i, j \in 1..Len(out) :
    (i < j /\ SameBuf(out[i], out[j])) =>
      /\ SeverityOrError(out[i]) <= SeverityOrError(out[j])
      /\ SeverityOrError(out[i]) = SeverityOrError(out[j])
           => LineOf(out[i]) <= LineOf(out[j])

\* C3 as stated: after the sort, any two items of the same bufNr are in
\* non-decreasing severity order (missing severity counted as Error) and,
\* for equal severity, in non-decreasing lineNr order -- for any input.
C3_SeverityThenLine_AnyInput == Sorted => SeverityThenLine(sortOut)

\* C3, the inputs on which the comparator is consistent: the same order
\* holds whenever every item has a defined bufNr and a defined severity.
C3_SeverityThenLine_Defined == (Sorted /\ AllDefined) => SeverityThenLine(sortOut)

\* three items of one buffer, severities and lines out of order, get sorted
C3_Witness ==
  /\ Sorted /\ AllDefined /\ Len(sortIn) = 3 /\ sortOut # sortIn
  /\ \A i \in 1..3 : BufOf(sortIn[i]) = 1
  /\ sortIn[1].data.severity > sortIn[3].data.severity
  /\ sortIn[1].data.severity = sortIn[2].data.severity
  /\ LineOf(sortIn[1]) > LineOf(sortIn[2])

\* C4: after the sort, every item whose bufNr is undefined or the focused one
\* precedes every item of another buffer, and the items of other buffers are
\* in ascending bufNr order.
C4_FocusedFirstThenBufNr ==
  Sorted =>
    \A i, j \in 1..Len(sortOut) :
      i < j =>
        /\ ~(~InFront(sortOut[i]) /\ InFront(sortOut[j]))
        /\ (~InFront(sortOut[i]) /\ ~InFront(sortOut[j]))
             => BufOf(sortOut[i]) <= BufOf(sortOut[j])

\* two other buffers in descending order followed by an item without bufNr
C4_Witness ==
  /\ Sorted /\ Len(sortIn) = 3
  /\ ~InFront(sortIn[1]) /\ ~InFront(sortIn[2])
  /\ BufOf(sortIn[1]) > BufOf(sortIn[2])
  /\ BufOf(sortIn[3]) = Undefined
  /\ BufOf(sortOut[1]) = Undefined

Idempotent == sortItemDiagnostic(sortOut, sortCur) = sortOut
Stable ==
  \A i, j \in 1..Len(sortIn) :
    (i < j /\ (Tie(sortIn[i], sortIn[j]) \/ SameKeys(sortIn[i], sortIn[j])))
      => PosOf(sortOut, i) < PosOf(sortOut, j)

\* C5 as stated: sorting the output again changes nothing, and items that
\* compare as equal keep their input order -- for any input, items with an
\* undefined or the focused bufNr included.
C5_IdempotentStable_AnyInput == Sorted => (Idempotent /\ Stable)

\* C5, the inputs on which the comparator is consistent: both hold whenever
\* every item has a defined bufNr and a defined severity.
C5_IdempotentStable_Defined == (Sorted /\ AllDefined) => (Idempotent /\ Stable)

\* equal items of the focused buffer behind an item that has to move
C5_Witness ==
  /\ Sorted /\ AllDefined /\ Len(sortIn) = 3 /\ sortOut # sortIn
  /\ SameKeys(sortIn[2], sortIn[3]) /\ BufOf(sortIn[2]) = sortCur
  /\ PosOf(sortOut, 2) < PosOf(sortOut, 3)

\* ------------------------------------------------------------------------
\* Properties of the location handlers (SpecLoc)
\* ------------------------------------------------------------------------
Handled == locPc = "handled"
IsLocation(e) == "uri" \in DOMAIN e /\ "range" \in DOMAIN e
IsLocationLink(e) == "targetUri" \in DOMAIN e /\ "targetSelectionRange" \in DOMAIN e
EntryUri(e) == IF IsLocation(e) THEN e.uri ELSE e.targetUri
EntryStart(e) == IF IsLocation(e) THEN e.range.start ELSE e.targetSelectionRange.start

\* deno: followed, anywhere later, by %23 and one of %5E %7E %3C %3D
BlockedUri(uri) ==
  /\ Head(uri) = "deno:"
  /\ \E i \in 2..Len(uri), j \in 2..Len(uri) :
       j = i + 1 /\ uri[i] = "%23" /\ uri[j] \in {"%5E", "%7E", "%3C", "%3D"}

\* the raw entries of a response, client by client, in input order
RECURSIVE RawEntries(_)
RawEntries(list) ==
  IF list = <<>> THEN <<>>
  ELSE (CASE Head(list).kind = "array" -> Head(list).locs
          [] Head(list).kind = "single" -> <<Head(list).loc>>
          [] OTHER -> <<>>) \o RawEntries(Tail(list))

\* the item of one entry: path (file: uris decoded), 1-based line and column
ExpectedItem(e) ==
  LET uri == EntryUri(e)
      path == IF Head(uri) = "file:" THEN SubSeq(uri, 2, Len(uri)) ELSE uri
      l == EntryStart(e).line + 1
      c == EntryStart(e).character + 1
  IN [word |-> path, display |-> <<path, l, c>>,
      action |-> [path |-> path, lineNr |-> l, col |-> c]]

ExpectedItems(list) ==
  LET kept == SelectSeq(RawEntries(list), LAMBDA e : ~BlockedUri(EntryUri(e)))
  IN [i \in 1..Len(kept) |-> ExpectedItem(kept[i])]

\* every result is one Location, an array of Locations or of LocationLinks
ListedShapes(list) ==
  \A i \in 1..Len(list) :
    \/ list[i].kind = "single" /\ IsLocation(list[i].loc)
    \/ list[i].kind = "array"
OnlyLocations(list) ==
  \A i \in 1..Len(RawEntries(list)) : IsLocation(RawEntries(list)[i])
NoBlockedBuilt ==
  \A i \in 1..Len(locOut.built) :
    "uri" \in DOMAIN locOut.built[i] => ~BlockedUri(locOut.built[i].uri)

Diag == source = "lsp_diagnostic"
Lsp == source = "nvim_lsp"
Count(seq, x) == Cardinality({i \in 1..Len(seq) : seq[i] = x})
AdapterFailed == \E i \in 1..Len(tasks) : tasks[i].status = "failed"
ReportedAs(name) ==
  \E i \in 1..Len(log) : log[i].fn = "printError" /\ log[i].name = name
ClosedNotErrored == stream.state = "closed"

\* C1: when an adapter call of the diagnostics gather fails (the host call
\* throws, or 'nvim-lsp' is asked for on a vim host, for one buffer or any
\* buffer of a list), the error goes to printError under 'lsp_diagnostic',
\* no batch is enqueued (nothing of the buffers that succeeded), and the
\* stream is closed, not errored.
C1_AdapterFailureReported ==
  /\ (Diag /\ pc # "start" /\ clientName = "nvim-lsp" /\ host = "vim"
        /\ Len(buffer.ids) > 0) => AdapterFailed
  /\ (Diag /\ AdapterFailed) =>
       /\ pc = "done"
       /\ ReportedAs("lsp_diagnostic")
       /\ Count(calls, "enqueue") = 0
       /\ stream.queue = <<>> /\ received = <<>> /\ sortCalls = <<>>
       /\ ClosedNotErrored

\* one buffer of a list has returned diagnostics, another one failed
C1_Witness ==
  /\ Diag /\ buffer.isArray /\ cancelledAt = "no"
  /\ \E i, j \in 1..Len(tasks) :
       /\ tasks[i].status = "done" /\ tasks[i].result # <<>>
       /\ tasks[j].status = "failed"

\* C2 as stated: whatever the host call does (throws, returns malformed
\* data), neither gather ever faults: start() does not reject and the stream
\* is never errored.
C2_NoUnhandledFault ==
  (pc = "done" /\ ~Cancelled) => (~startRejected /\ stream.state # "errored")

\* C7: a method that is not one of the five supported ones is rejected
\* before any host request: one warning is logged, nothing is enqueued, the
\* stream is closed once and is not errored.
C7_UnsupportedMethodRejected ==
  (Lsp /\ method \notin SUPPORTED_METHODS /\ pc # "start") =>
    /\ pc = "done"
    /\ bridgeCalls = 0
    /\ log = <<[fn |-> "console.log", name |-> "Unsupported method", error |-> method]>>
    /\ calls = <<"close">>
    /\ stream.queue = <<>> /\ received = <<>>
    /\ ClosedNotErrored /\ ~startRejected

\* the default (empty) method has been rejected
C7_Witness == Lsp /\ method = "" /\ pc = "done" /\ stream.state = "closed"

\* the per-buffer results, joined in the order of the scope's ids
RECURSIVE InInputOrder(_)
InInputOrder(ts) ==
  IF ts = <<>> THEN <<>> ELSE Head(ts).result \o InInputOrder(Tail(ts))

\* C8: for a list scope, every adapter is called with the id of its entry
\* (0 replaced by the caller's active buffer), and what the sorter is handed
\* is the per-buffer results in the order of the input list, each item
\* decorated and at the position of its diagnostic, whatever the order in
\* which the queries and decorations completed.
C8_JoinedInInputOrder ==
  (Diag /\ buffer.isArray) =>
    /\ \A i \in 1..Len(tasks) :
         tasks[i].bufNr = IF buffer.ids[i] = 0 THEN ctxBuf ELSE buffer.ids[i]
    /\ \A c \in 1..Len(sortCalls) :
         /\ Len(tasks) = Len(buffer.ids)
         /\ [k \in 1..Len(sortCalls[c]) |-> sortCalls[c][k].data] = InInputOrder(tasks)
         /\ \A k \in 1..Len(sortCalls[c]) : sortCalls[c][k].decorated

\* the second buffer of <<0, 1>> answered first, both with diagnostics
C8_Witness ==
  /\ Diag /\ buffer.isArray /\ buffer.ids = <<0, 1>> /\ ctxBuf = 2
  /\ clientName = "nvim-lsp"
  /\ firstDone = 2
  /\ Len(sortCalls) = 1 /\ Len(sortCalls[1]) = 2
  /\ sortCalls[1][1].action.bufNr = 2 /\ sortCalls[1][2].action.bufNr = 1

\* C9 as stated: once the consumer has cancelled while start() was suspended
\* on a host call, the producer issues no further host call, does not
\* enqueue on the cancelled stream, and does not throw.
C9_CancelStopsProducer ==
  cancelledAt \in {"querying", "decorating", "requesting"} => afterCancel = {}

\* the batch of the diagnostics gather is the sorted, decorated items of all
\* buffers; the batch of the other gather is the handler's items
BatchComplete(batch) ==
  IF Diag
  THEN /\ Len(sortCalls) = 1
       /\ batch = sortItemDiagnostic(sortCalls[1], ctxBuf)
       /\ Len(batch) = Len(InInputOrder(tasks))
       /\ \A k \in 1..Len(batch) : batch[k].decorated
  ELSE batch = HandlerFor(method, response.list).items

\* C10 as stated: at most one batch is enqueued, and only when complete;
\* close is called exactly once and no enqueue follows it; once start() has
\* run to its end the stream is closed.
C10_OneShotStream ==
  /\ Count(calls, "enqueue") <= 1
  /\ \A i, j \in 1..Len(calls) : (i < j /\ calls[i] = "close") => calls[j] # "enqueue"
  /\ \A i \in 1..Len(stream.queue) : BatchComplete(stream.queue[i])
  /\ \A i \in 1..Len(received) : BatchComplete(received[i])
  /\ pc = "done" =>
       /\ Count(calls, "close") = 1
       /\ stream.closeRequested \/ stream.state = "closed"

====
